---- MODULE Spec2Model ----
(***************************************************************************)
(* Model of lsd's configuration resolution (src/src/config_file.rs,        *)
(* src/src/flags/display.rs) and icon resolution (src/src/icon.rs).        *)
(*                                                                         *)
(* Rust values are encoded as follows:                                     *)
(*   Option<T>      a sequence of length <= 1: <<>> is None, <<v>> Some(v) *)
(*   String         for configuration values a TLA+ string (the code only  *)
(*                  compares them); for file names, extensions and glyphs  *)
(*                  a sequence of one-character strings, so that           *)
(*                  to_lowercase and format! are computed                  *)
(*   Result<T, E>   a record [ok, val]                                     *)
(*   print_error!   appends one message to the sequence stderr             *)
(***************************************************************************)
EXTENDS Naturals, Sequences, FiniteSets

VARIABLES
    matches,      \* the parsed invocation arguments (clap ArgMatches)
    file,         \* what fs::read finds at the configuration path
    op,           \* which constructor of Config was called
    pathOutcome,  \* outcome of Config::config_file_path, once computed
    config,       \* Option<Config>: the constructor's result
    flags,        \* the resolved options
    returned,     \* the Option<Display> a direct call of Display::from_config returned
    tty,          \* Icons::new's argument tty
    when,         \* Icons::new's argument when (IconOption)
    theme,        \* Icons::new's argument theme (flags::IconTheme)
    separator,    \* Icons::new's argument icon_separator
    themeFile,    \* what Theme::from_path finds for "icons"
    windows,      \* whether the build is cfg(windows)
    icons,        \* the Icons value built by Icons::new
    entry,        \* the Name last passed to Icons::get
    icon,         \* the String Icons::get returned for it
    listed,       \* how many entries Icons::get was called for
    stderr,       \* the messages print_error! has written, in order
    pc            \* position of the invocation

configVars == <<matches, file, op, pathOutcome, config, flags, returned>>

iconInputs == <<tty, when, theme, separator, themeFile, windows>>

iconVars == <<tty, when, theme, separator, themeFile, windows, icons, entry, icon, listed>>

vars == <<configVars, iconVars, stderr, pc>>

----------------------------------------------------------------------------
(* Option<T> *)

None == <<>>

Some(v) == <<v>>

IsSome(o) == o # <<>>

Unwrap(o) == o[1]

(* Result<T, E>; the error value itself is only ever printed *)

Ok(v) == [ok |-> TRUE, val |-> v]

Err == [ok |-> FALSE, val |-> <<>>]

----------------------------------------------------------------------------
(* YAML documents.  A scalar node carries its style (a quoted scalar is    *)
(* always a string, a plain one is resolved by serde_yaml according to the *)
(* type asked for) and its text; a missing key is the node Absent.         *)

Absent == [style |-> "absent", text |-> ""]

Plain(t) == [style |-> "plain", text |-> t]

Quoted(t) == [style |-> "quoted", text |-> t]

(* the mapping under `color:` (keys: when) *)
ColorMap(w) == [style |-> "map", text |-> "", when |-> w]

ColorNode(n) == [style |-> n.style, text |-> n.text, when |-> Absent]

(* the mapping under `icons:` (keys: when, theme) *)
IconsMap(w, t) == [style |-> "map", text |-> "", when |-> w, theme |-> t]

IconsNode(n) == [style |-> n.style, text |-> n.text, when |-> Absent, theme |-> Absent]

(* the mapping under `sorting:`.  The document key `dir-grouping` (as the  *)
(* built-in template writes it) and the key `dir_grouping` (the field name *)
(* of struct Sorting) are different keys.                                  *)
SortingMap(kebab, snake) ==
    [style |-> "map", text |-> "", dir_dash_grouping |-> kebab, dir_grouping |-> snake]

SortingNode(n) ==
    [style |-> n.style, text |-> n.text, dir_dash_grouping |-> Absent, dir_grouping |-> Absent]

(* a document that is a mapping with these top-level keys *)
Doc(classic, color, date, display, iconsNode, sorting) ==
    [classic |-> classic, color |-> color, date |-> date, display |-> display,
     icons |-> iconsNode, sorting |-> sorting]

EmptyDoc ==
    Doc(Absent, ColorNode(Absent), Absent, Absent, IconsNode(Absent), SortingNode(Absent))

(* a YAML text: one that is a well-formed mapping, or one with a syntax error *)
YamlText(d) == [syntax |-> TRUE, doc |-> d]

Unparsable == [syntax |-> FALSE, doc |-> EmptyDoc]

----------------------------------------------------------------------------
(* serde's derived Deserialize for the structs of config_file.rs *)

IsNull(n) == n.style = "absent" \/ (n.style = "plain" /\ n.text \in {"~", "null"})

(* Option<bool> *)
DeOptBool_Lenient(n) ==
    IF n.style = "plain" /\ n.text \in {"true", "false"} THEN Ok(Some(n.text = "true"))
    ELSE Ok(None)

DeOptBool(n) ==
    IF IsNull(n) THEN Ok(None)
    ELSE IF n.style = "plain" /\ n.text \in {"true", "false"} THEN Ok(Some(n.text = "true"))
    ELSE Err

(* String: any scalar; a missing key is the error `missing field` *)
DeString(n) ==
    IF n.style \in {"plain", "quoted"} THEN Ok(n.text) ELSE Err

(* Option<String> *)
DeOptString(n) ==
    IF IsNull(n) THEN Ok(None)
    ELSE IF n.style \in {"plain", "quoted"} THEN Ok(Some(n.text))
    ELSE Err

(* Option<Color>, struct Color { when: String } *)
DeOptColor(n) ==
    IF IsNull(n) THEN Ok(None)
    ELSE IF n.style = "map" /\ DeString(n.when).ok
         THEN Ok(Some([when |-> DeString(n.when).val]))
    ELSE Err

(* Option<Icons>, struct Icons { when: Option<String>, theme: Option<String> } *)
DeOptIcons(n) ==
    IF IsNull(n) THEN Ok(None)
    ELSE IF n.style = "map" /\ DeOptString(n.when).ok /\ DeOptString(n.theme).ok
         THEN Ok(Some([when |-> DeOptString(n.when).val,
                       theme |-> DeOptString(n.theme).val]))
    ELSE Err

(* Option<Sorting>; of struct Sorting only dir_grouping is modelled.  The  *)
(* struct declares no serde rename, so the field is read from the key      *)
(* `dir_grouping`; the key `dir-grouping` is an unknown key and is ignored. *)
DeOptSorting(n) ==
    IF IsNull(n) THEN Ok(None)
    ELSE IF n.style = "map" /\ DeOptString(n.dir_grouping).ok
         THEN Ok(Some([dir_grouping |-> DeOptString(n.dir_grouping).val]))
    ELSE Err

(* struct Config: the fields the options modelled here read *)
MkConfig(classic, color, date, display, iconsField, sorting) ==
    [classic |-> classic, color |-> color, date |-> date, display |-> display,
     icons |-> iconsField, sorting |-> sorting]

(* serde_yaml::from_str::<Config>: every field must deserialize *)
from_str_DropClassic(yaml) ==
    LET d == yaml.doc IN
    IF ~yaml.syntax THEN Err
    ELSE IF /\ DeOptColor(d.color).ok
            /\ DeOptString(d.date).ok
            /\ DeOptString(d.display).ok
            /\ DeOptIcons(d.icons).ok
            /\ DeOptSorting(d.sorting).ok
         THEN Ok(MkConfig(None, DeOptColor(d.color).val,
                          DeOptString(d.date).val, DeOptString(d.display).val,
                          DeOptIcons(d.icons).val, DeOptSorting(d.sorting).val))
    ELSE Err

from_str(yaml) ==
    LET d == yaml.doc IN
    IF ~yaml.syntax THEN Err
    ELSE IF /\ DeOptBool(d.classic).ok
            /\ DeOptColor(d.color).ok
            /\ DeOptString(d.date).ok
            /\ DeOptString(d.display).ok
            /\ DeOptIcons(d.icons).ok
            /\ DeOptSorting(d.sorting).ok
         THEN Ok(MkConfig(DeOptBool(d.classic).val, DeOptColor(d.color).val,
                          DeOptString(d.date).val, DeOptString(d.display).val,
                          DeOptIcons(d.icons).val, DeOptSorting(d.sorting).val))
    ELSE Err

----------------------------------------------------------------------------
(* impl Config.  An operator that may print returns [val, errs]: its value *)
(* and the messages it writes.                                             *)

Ret(v, e) == [val |-> v, errs |-> e]

with_none == MkConfig(None, None, None, None, None, None)

with_yaml_EmptyOnError(yaml) ==
    IF from_str(yaml).ok
    THEN Ret(Some(from_str(yaml).val), <<>>)
    ELSE Ret(Some(with_none), <<"configuration file format error">>)

with_yaml(yaml) ==
    IF from_str(yaml).ok
    THEN Ret(Some(from_str(yaml).val), <<>>)
    ELSE Ret(None, <<"configuration file format error">>)

(* fs::read(&file): the bytes, or an io::Error of some kind *)
ReadOk(yaml) == [kind |-> "Ok", bytes |-> yaml]

ReadNotFound == [kind |-> "NotFound", bytes |-> Unparsable]

ReadOtherError == [kind |-> "PermissionDenied", bytes |-> Unparsable]

with_file_ReportAll(f) ==
    IF f.kind = "Ok" THEN with_yaml(f.bytes)
    ELSE Ret(None, <<"bad config file">>)

with_file(f) ==
    IF f.kind = "Ok" THEN with_yaml(f.bytes)
    ELSE IF f.kind = "NotFound" THEN Ret(None, <<>>)
    ELSE Ret(None, <<"bad config file">>)

(* config_file_path: on unix BaseDirectories::with_prefix may fail (this   *)
(* is printed) and place_config_file may fail (silently); on windows       *)
(* dirs::config_dir may be None, which behaves as "place_err".             *)
PathOutcomes == {"ok", "xdg_err", "place_err"}

config_file_path(outcome) ==
    IF outcome = "ok" THEN Ret(Some("config.yaml"), <<>>)
    ELSE IF outcome = "xdg_err" THEN Ret(None, <<"can not open config file">>)
    ELSE Ret(None, <<>>)

(* the built-in template of impl Default for Config, as a document *)
Template ==
    YamlText(Doc(Plain("false"),
                 ColorMap(Plain("auto")),
                 Plain("date"),
                 Absent,
                 IconsMap(Plain("auto"), Plain("fancy")),
                 SortingMap(Plain("none"), Absent)))

(* impl Default for Config; `.unwrap()` of the template's parse *)
ConfigDefault_NoFallback(outcome, f) ==
    LET p == config_file_path(outcome)
        c == with_file(f)
        t == with_yaml(Template)
    IN  IF IsSome(p.val) THEN Ret(c.val, p.errs \o c.errs)
        ELSE Ret(t.val, p.errs \o t.errs)

ConfigDefault(outcome, f) ==
    LET p == config_file_path(outcome)
        c == with_file(f)
        t == with_yaml(Template)
    IN  IF IsSome(p.val) /\ IsSome(c.val) THEN Ret(c.val, p.errs \o c.errs)
        ELSE IF IsSome(p.val) THEN Ret(t.val, p.errs \o c.errs \o t.errs)
        ELSE Ret(t.val, p.errs \o t.errs)

----------------------------------------------------------------------------
(* flags/display.rs: enum Display and its three layers *)

Display_from_str_Silent(value) ==
    IF value = "all" THEN Ret(Some("All"), <<>>)
    ELSE IF value = "almost-all" THEN Ret(Some("AlmostAll"), <<>>)
    ELSE IF value = "directory-only" THEN Ret(Some("DirectoryItself"), <<>>)
    ELSE Ret(None, <<>>)

Display_from_str(value) ==
    IF value = "all" THEN Ret(Some("All"), <<>>)
    ELSE IF value = "almost-all" THEN Ret(Some("AlmostAll"), <<>>)
    ELSE IF value = "directory-only" THEN Ret(Some("DirectoryItself"), <<>>)
    ELSE Ret(None, <<"display can only be one of all, almost-all or directory-only">>)

Display_from_arg_matches(m) ==
    IF m.all THEN Some("All")
    ELSE IF m.almost_all THEN Some("AlmostAll")
    ELSE IF m.directory_only THEN Some("DirectoryItself")
    ELSE None

Display_from_config_Unset(c) == Ret(None, <<>>)

Display_from_config(c) ==
    IF IsSome(c.display) THEN Display_from_str(Unwrap(c.display))
    ELSE Ret(None, <<>>)

Display_default == "DisplayOnlyVisible"

----------------------------------------------------------------------------
(* The merger and the resolvers of the other options.  Their code is not   *)
(* among the source files; they follow sections 4.1 and 4.2 of the         *)
(* specification.                                                          *)

(* Configurable::configure_from: the first present layer.  `fromConfig` is *)
(* only evaluated, and its messages only printed, when the argument layer  *)
(* yields nothing.                                                         *)
configure_from(fromArgs, fromConfig, default) ==
    IF IsSome(fromArgs) THEN Ret(Unwrap(fromArgs), <<>>)
    ELSE IF IsSome(fromConfig.val) THEN Ret(Unwrap(fromConfig.val), fromConfig.errs)
    ELSE Ret(default, fromConfig.errs)

(* a document string that must be one of `allowed` *)
EnumFromStr(value, allowed) ==
    IF value \in allowed THEN Ret(Some(value), <<>>)
    ELSE Ret(None, <<"unknown value">>)

ClassicOn(c) == c.classic = Some(TRUE)

Classic_from_config(c) == Ret(c.classic, <<>>)

ColorWhen_from_arg_matches(m) == m.color

ColorWhen_from_config(c) ==
    IF ClassicOn(c) THEN Ret(Some("never"), <<>>)
    ELSE IF IsSome(c.color) THEN EnumFromStr(Unwrap(c.color).when, {"never", "auto", "always"})
    ELSE Ret(None, <<>>)

IconWhen_from_config(c) ==
    IF ClassicOn(c) THEN Ret(Some("never"), <<>>)
    ELSE IF IsSome(c.icons) /\ IsSome(Unwrap(c.icons).when)
         THEN EnumFromStr(Unwrap(Unwrap(c.icons).when), {"always", "auto", "never"})
    ELSE Ret(None, <<>>)

IconTheme_from_config(c) ==
    IF IsSome(c.icons) /\ IsSome(Unwrap(c.icons).theme)
    THEN EnumFromStr(Unwrap(Unwrap(c.icons).theme), {"fancy", "unicode"})
    ELSE Ret(None, <<>>)

DateFormat_from_config(c) ==
    IF ClassicOn(c) THEN Ret(Some("date"), <<>>)
    ELSE IF IsSome(c.date) THEN EnumFromStr(Unwrap(c.date), {"date", "relative"})
    ELSE Ret(None, <<>>)

DirGrouping_from_config(c) ==
    IF ClassicOn(c) THEN Ret(Some("none"), <<>>)
    ELSE IF IsSome(c.sorting) /\ IsSome(Unwrap(c.sorting).dir_grouping)
         THEN EnumFromStr(Unwrap(Unwrap(c.sorting).dir_grouping), {"first", "last", "none"})
    ELSE Ret(None, <<>>)

(* every option resolved against the arguments and one document *)
Flags_configure_from(m, c) ==
    LET display == configure_from(Display_from_arg_matches(m), Display_from_config(c),
                                  Display_default)
        classic == configure_from(None, Classic_from_config(c), FALSE)
        color == configure_from(ColorWhen_from_arg_matches(m), ColorWhen_from_config(c), "auto")
        iconWhen == configure_from(None, IconWhen_from_config(c), "auto")
        iconTheme == configure_from(None, IconTheme_from_config(c), "fancy")
        date == configure_from(None, DateFormat_from_config(c), "date")
        dirGrouping == configure_from(None, DirGrouping_from_config(c), "none")
    IN  Ret([display |-> display.val, classic |-> classic.val, color_when |-> color.val,
             icon_when |-> iconWhen.val, icon_theme |-> iconTheme.val,
             date |-> date.val, dir_grouping |-> dirGrouping.val],
            display.errs \o classic.errs \o color.errs \o iconWhen.errs
                \o iconTheme.errs \o date.errs \o dirGrouping.errs)

(* the document the options are resolved against: the constructor's        *)
(* result, or no document at all                                           *)
EffectiveConfig(c) == IF IsSome(c) THEN Unwrap(c) ELSE with_none

----------------------------------------------------------------------------
(* Inputs *)

ClassicNodes == {Absent, Plain("true"), Plain("false"), Plain("notbool"), Quoted("notabool")}

DisplayNodes ==
    {Absent, Plain("all"), Plain("almost-all"), Plain("directory-only"), Plain("everything")}

ColorNodes ==
    {ColorNode(Absent), ColorMap(Plain("always")), ColorMap(Plain("never")), ColorMap(Absent)}

IconsNodes ==
    {IconsNode(Absent), IconsMap(Absent, Plain("unicode")),
     IconsMap(Plain("always"), Plain("fancy")), IconsNode(Plain("yes"))}

SortingNodes ==
    {SortingNode(Absent), SortingMap(Plain("first"), Absent), SortingMap(Absent, Plain("first"))}

DateNodes == {Absent, Plain("relative")}

(* documents varying classic, display and color, and documents varying     *)
(* classic, date, icons and sorting                                        *)
Documents ==
    {Doc(cl, co, Absent, di, IconsNode(Absent), SortingNode(Absent)) :
        cl \in ClassicNodes, co \in ColorNodes, di \in DisplayNodes}
    \cup
    {Doc(cl, ColorNode(Absent), da, Absent, ic, so) :
        cl \in ClassicNodes, da \in DateNodes, ic \in IconsNodes, so \in SortingNodes}

Files ==
    {ReadOk(YamlText(d)) : d \in Documents}
        \cup {ReadOk(Unparsable), ReadNotFound, ReadOtherError}

ArgMatches ==
    [all : BOOLEAN, almost_all : BOOLEAN, directory_only : BOOLEAN,
     color : {None, Some("always")}]

NoFlags ==
    [display |-> "unset", classic |-> FALSE, color_when |-> "unset", icon_when |-> "unset",
     icon_theme |-> "unset", date |-> "unset", dir_grouping |-> "unset"]

----------------------------------------------------------------------------
(* Strings as sequences of characters *)

ToLowerChar(c) ==
    CASE c = "A" -> "a" [] c = "D" -> "d" [] c = "E" -> "e" [] c = "F" -> "f"
      [] c = "I" -> "i" [] c = "K" -> "k" [] c = "L" -> "l" [] c = "M" -> "m"
      [] c = "R" -> "r" [] OTHER -> c

to_lowercase(str) == [i \in 1..Len(str) |-> ToLowerChar(str[i])]

(* HashMap<String, String> as a set of <<key, value>> pairs, one per key *)
Keys(map) == {e[1] : e \in map}

MapGet(map, key) ==
    IF key \in Keys(map) THEN Some((CHOOSE e \in map : e[1] = key)[2]) ELSE None

(* meta::Name: the entry's file name, its extension and its file type.     *)
(* The extension is the part after the last `.` of the name; a name with   *)
(* no `.`, or whose only `.` is its first character, has none.             *)
LastDot(str) ==
    IF \E i \in 1..Len(str) : str[i] = "."
    THEN CHOOSE i \in 1..Len(str) : str[i] = "." /\ \A j \in (i + 1)..Len(str) : str[j] # "."
    ELSE 0

extension(str) ==
    IF LastDot(str) <= 1 THEN None
    ELSE Some(SubSeq(str, LastDot(str) + 1, Len(str)))

MkName(str, ft) == [name |-> str, extension |-> extension(str), file_type |-> ft]

(* meta::FileType; `flag` is is_dir of SymLink and exec of File *)
FileType(tag, flag) == [tag |-> tag, flag |-> flag]

FileTypes ==
    {FileType("Directory", FALSE), FileType("File", FALSE), FileType("File", TRUE),
     FileType("SymLink", FALSE), FileType("SymLink", TRUE), FileType("Socket", FALSE),
     FileType("Pipe", FALSE), FileType("CharDevice", FALSE),
     FileType("BlockDevice", FALSE), FileType("Special", FALSE)}

----------------------------------------------------------------------------
(* theme::icon::IconTheme.  The compiled-in tables are not among the       *)
(* source files; the tests of icon.rs fix the file and directory glyphs of *)
(* both, the other entries stand for the tables' contents.                 *)

Glyph(c) == <<c>>

ByType(d, f, x, sd, sf, so, p, dc, db, sp) ==
    [dir |-> d, file |-> f, executable |-> x, symlink_dir |-> sd, symlink_file |-> sf,
     socket |-> so, pipe |-> p, device_char |-> dc, device_block |-> db, special |-> sp]

S_makefile == <<"m", "a", "k", "e", "f", "i", "l", "e">>

S_todo_md == <<"t", "o", "d", "o", ".", "m", "d">>

S_md == <<"m", "d">>

S_txt == <<"t", "x", "t">>

S_file == <<"f", "i", "l", "e">>

IconTheme_default ==
    [icons_by_filetype |->
        ByType(Glyph("U+F115"), Glyph("U+F016"), Glyph("U+F489"), Glyph("U+F482"),
               Glyph("U+F481"), Glyph("U+F6A7"), Glyph("U+F731"), Glyph("U+E601"),
               Glyph("U+FC29"), Glyph("U+F2DC")),
     icons_by_name |-> {<<S_makefile, Glyph("U+E615")>>, <<S_todo_md, Glyph("U+F4A0")>>},
     icons_by_extension |-> {<<S_md, Glyph("U+F48A")>>, <<S_txt, Glyph("U+F15C")>>}]

IconTheme_unicode ==
    [icons_by_filetype |->
        ByType(Glyph("U+1F4C2"), Glyph("U+1F4C4"), Glyph("U+1F3D7"), Glyph("U+1F5C2"),
               Glyph("U+1F516"), Glyph("U+1F50C"), Glyph("U+1F4E9"), Glyph("U+1F5A8"),
               Glyph("U+1F4BD"), Glyph("U+1F4DF")),
     icons_by_name |-> {},
     icons_by_extension |-> {}]

(* the overlay of a user's theme document on a base table: per key, the    *)
(* user's entry where the document has one, the base table's otherwise     *)
OverlayMap(base, user) == user \cup {e \in base : e[1] \notin Keys(user)}

Overlay(base, user) ==
    [icons_by_filetype |->
        [k \in DOMAIN base.icons_by_filetype |->
            IF k \in Keys(user.icons_by_filetype)
            THEN Unwrap(MapGet(user.icons_by_filetype, k))
            ELSE base.icons_by_filetype[k]],
     icons_by_name |-> OverlayMap(base.icons_by_name, user.icons_by_name),
     icons_by_extension |-> OverlayMap(base.icons_by_extension, user.icons_by_extension)]

(* a user's theme document: the entries it names in each section *)
ThemeDoc(byType, byName, byExt) ==
    [icons_by_filetype |-> byType, icons_by_name |-> byName, icons_by_extension |-> byExt]

ThemeAbsent == [kind |-> "absent", doc |-> ThemeDoc({}, {}, {})]

ThemeMalformed == [kind |-> "malformed", doc |-> ThemeDoc({}, {}, {})]

ThemeValid(d) == [kind |-> "valid", doc |-> d]

(* Theme::from_path::<IconTheme>("icons") *)
Theme_from_path(tf) ==
    IF tf.kind = "valid" THEN Ret(Ok(Overlay(IconTheme_default, tf.doc)), <<>>)
    ELSE IF tf.kind = "malformed" THEN Ret(Err, <<"theme file format error">>)
    ELSE Ret(Err, <<>>)

----------------------------------------------------------------------------
(* icon.rs: struct Icons *)

MkIcons(sep, t) == [icon_separator |-> sep, theme |-> t]

Icons_new_AutoAlwaysOn(t, w, th, sep, tf) ==
    IF w = "Never" THEN Ret(MkIcons(sep, None), <<>>)
    ELSE IF th = "Fancy"
         THEN IF Theme_from_path(tf).val.ok
              THEN Ret(MkIcons(sep, Some(Theme_from_path(tf).val.val)),
                       Theme_from_path(tf).errs)
              ELSE Ret(MkIcons(sep, Some(IconTheme_default)), Theme_from_path(tf).errs)
    ELSE Ret(MkIcons(sep, Some(IconTheme_unicode)), <<>>)

Icons_new_IgnoreLoaded(t, w, th, sep, tf) ==
    IF w = "Never" \/ (~t /\ w = "Auto") THEN Ret(MkIcons(sep, None), <<>>)
    ELSE IF th = "Fancy"
         THEN Ret(MkIcons(sep, Some(IconTheme_default)), Theme_from_path(tf).errs)
    ELSE Ret(MkIcons(sep, Some(IconTheme_unicode)), <<>>)

Icons_new_ThemeIgnored(t, w, th, sep, tf) ==
    IF w = "Never" \/ (~t /\ w = "Auto") THEN Ret(MkIcons(sep, None), <<>>)
    ELSE IF Theme_from_path(tf).val.ok
         THEN Ret(MkIcons(sep, Some(Theme_from_path(tf).val.val)), Theme_from_path(tf).errs)
    ELSE Ret(MkIcons(sep, Some(IconTheme_default)), Theme_from_path(tf).errs)

Icons_new(t, w, th, sep, tf) ==
    IF w = "Never" \/ (~t /\ w = "Auto") THEN Ret(MkIcons(sep, None), <<>>)
    ELSE IF th = "Fancy"
         THEN IF Theme_from_path(tf).val.ok
              THEN Ret(MkIcons(sep, Some(Theme_from_path(tf).val.val)),
                       Theme_from_path(tf).errs)
              ELSE Ret(MkIcons(sep, Some(IconTheme_default)), Theme_from_path(tf).errs)
    ELSE Ret(MkIcons(sep, Some(IconTheme_unicode)), <<>>)

(* the by-name lookup, then the by-extension lookup: Option<&String> *)
ByNameOrExtension_ExtensionFirst(t, name) ==
    IF IsSome(name.extension)
       /\ IsSome(MapGet(t.icons_by_extension, to_lowercase(Unwrap(name.extension))))
    THEN MapGet(t.icons_by_extension, to_lowercase(Unwrap(name.extension)))
    ELSE MapGet(t.icons_by_name, to_lowercase(name.name))

ByNameOrExtension(t, name) ==
    IF IsSome(MapGet(t.icons_by_name, to_lowercase(name.name)))
    THEN MapGet(t.icons_by_name, to_lowercase(name.name))
    ELSE IF IsSome(name.extension)
         THEN MapGet(t.icons_by_extension, to_lowercase(Unwrap(name.extension)))
    ELSE None

(* the inner match on file_type: the glyph of the entry's category *)
CategoryDefault_ExecIgnored(t, ft, win) ==
    IF ft.tag = "Directory" THEN t.icons_by_filetype.dir
    ELSE t.icons_by_filetype.file

CategoryDefault(t, ft, win) ==
    IF ft.tag = "Directory" THEN t.icons_by_filetype.dir
    ELSE IF ~win /\ ft.tag = "File" /\ ft.flag THEN t.icons_by_filetype.executable
    ELSE t.icons_by_filetype.file

Icons_get_NameFirst(self, name, win) ==
    IF self.theme = None THEN <<>>
    ELSE LET t == Unwrap(self.theme)
             ft == name.file_type
             glyph ==
                IF IsSome(ByNameOrExtension(t, name)) THEN Unwrap(ByNameOrExtension(t, name))
                ELSE IF ft.tag = "SymLink" /\ ft.flag THEN t.icons_by_filetype.symlink_dir
                ELSE IF ft.tag = "SymLink" THEN t.icons_by_filetype.symlink_file
                ELSE IF ft.tag = "Socket" THEN t.icons_by_filetype.socket
                ELSE IF ft.tag = "Pipe" THEN t.icons_by_filetype.pipe
                ELSE IF ft.tag = "CharDevice" THEN t.icons_by_filetype.device_char
                ELSE IF ft.tag = "BlockDevice" THEN t.icons_by_filetype.device_block
                ELSE IF ft.tag = "Special" THEN t.icons_by_filetype.special
                ELSE CategoryDefault(t, ft, win)
         IN  glyph \o self.icon_separator

Icons_get(self, name, win) ==
    IF self.theme = None THEN <<>>
    ELSE LET t == Unwrap(self.theme)
             ft == name.file_type
             glyph ==
                IF ft.tag = "SymLink" /\ ft.flag THEN t.icons_by_filetype.symlink_dir
                ELSE IF ft.tag = "SymLink" THEN t.icons_by_filetype.symlink_file
                ELSE IF ft.tag = "Socket" THEN t.icons_by_filetype.socket
                ELSE IF ft.tag = "Pipe" THEN t.icons_by_filetype.pipe
                ELSE IF ft.tag = "CharDevice" THEN t.icons_by_filetype.device_char
                ELSE IF ft.tag = "BlockDevice" THEN t.icons_by_filetype.device_block
                ELSE IF ft.tag = "Special" THEN t.icons_by_filetype.special
                ELSE IF IsSome(ByNameOrExtension(t, name))
                     THEN Unwrap(ByNameOrExtension(t, name))
                ELSE CategoryDefault(t, ft, win)
         IN  glyph \o self.icon_separator

----------------------------------------------------------------------------
(* Inputs of icon resolution *)

(* how many entries one invocation lists *)
MaxEntries == 2

S_Makefile == <<"M", "a", "k", "e", "f", "i", "l", "e">>

S_makefile_md == S_makefile \o <<".">> \o S_md

S_README_MD == <<"R", "E", "A", "D", "M", "E", ".", "M", "D">>

S_a_out == <<"a", ".", "o", "u", "t">>

S_dot_md == <<".">> \o S_md

FileNames ==
    {S_makefile, S_Makefile, S_makefile_md, S_todo_md, S_README_MD, S_file, S_a_out, S_dot_md}

Names == {MkName(n, ft) : n \in FileNames, ft \in FileTypes}

OneExtensionDoc == ThemeDoc({}, {}, {<<S_md, Glyph("user-md")>>})

ThemeDocs ==
    {OneExtensionDoc,
     ThemeDoc({<<"symlink_dir", Glyph("user-symlink-dir")>>},
              {<<S_file, Glyph("user-file")>>}, {}),
     ThemeDoc({}, {}, {})}

ThemeFiles == {ThemeAbsent, ThemeMalformed} \cup {ThemeValid(d) : d \in ThemeDocs}

Separators == {<<" ">>, <<>>}

NoIcons == MkIcons(<<>>, None)

NoName == MkName(<<>>, FileType("File", FALSE))

(* the variables of the part an invocation does not exercise *)
ConfigIdle ==
    /\ matches = [all |-> FALSE, almost_all |-> FALSE, directory_only |-> FALSE, color |-> None]
    /\ file = ReadNotFound
    /\ op = "none"
    /\ pathOutcome = "none"
    /\ config = None
    /\ flags = NoFlags
    /\ returned = None

IconsIdle ==
    /\ tty = FALSE
    /\ when = "Never"
    /\ theme = "Fancy"
    /\ separator = <<>>
    /\ themeFile = ThemeAbsent
    /\ windows = FALSE
    /\ icons = NoIcons
    /\ entry = NoName
    /\ icon = <<>>
    /\ listed = 0

----------------------------------------------------------------------------
(* One invocation: a constructor of Config is called on the file, then the *)
(* options are resolved.                                                   *)

Init ==
    /\ matches \in ArgMatches
    /\ file \in Files
    /\ op = "none"
    /\ pathOutcome = "none"
    /\ config = None
    /\ flags = NoFlags
    /\ returned = None
    /\ IconsIdle
    /\ stderr = <<>>
    /\ pc = "start"

(* Config::with_yaml(text), as the tests call it *)
CallWithYaml ==
    /\ pc = "start"
    /\ file.kind = "Ok"
    /\ config' = with_yaml(file.bytes).val
    /\ stderr' = stderr \o with_yaml(file.bytes).errs
    /\ op' = "with_yaml"
    /\ pc' = "loaded"
    /\ UNCHANGED <<matches, file, pathOutcome, flags, returned, iconVars>>

(* Config::with_file(path) *)
CallWithFile ==
    /\ pc = "start"
    /\ config' = with_file(file).val
    /\ stderr' = stderr \o with_file(file).errs
    /\ op' = "with_file"
    /\ pc' = "loaded"
    /\ UNCHANGED <<matches, file, pathOutcome, flags, returned, iconVars>>

(* Config::default() *)
CallDefault ==
    /\ pc = "start"
    /\ \E o \in PathOutcomes :
        /\ pathOutcome' = o
        /\ config' = ConfigDefault(o, file).val
        /\ stderr' = stderr \o ConfigDefault(o, file).errs
        \* `.unwrap()` panics on None
        /\ pc' = IF IsSome(ConfigDefault(o, file).val) THEN "loaded" ELSE "panicked"
    /\ op' = "default"
    /\ UNCHANGED <<matches, file, flags, returned, iconVars>>

(* the options are configured from the arguments and the document *)
Configure ==
    /\ pc = "loaded"
    /\ flags' = Flags_configure_from(matches, EffectiveConfig(config)).val
    /\ stderr' = stderr \o Flags_configure_from(matches, EffectiveConfig(config)).errs
    /\ pc' = "done"
    /\ UNCHANGED <<matches, file, op, pathOutcome, config, returned, iconVars>>

(* Display::from_config(&config), as the tests call it *)
CallDisplayFromConfig ==
    /\ pc = "loaded"
    /\ returned' = Display_from_config(EffectiveConfig(config)).val
    /\ stderr' = stderr \o Display_from_config(EffectiveConfig(config)).errs
    /\ pc' = "queried"
    /\ UNCHANGED <<matches, file, op, pathOutcome, config, flags, iconVars>>

Next == CallWithYaml \/ CallWithFile \/ CallDefault \/ Configure \/ CallDisplayFromConfig

Spec == Init /\ [][Next]_vars

----------------------------------------------------------------------------
(* Icon resolution: Icons::new is called once, then Icons::get once per    *)
(* listed entry.                                                           *)

InitIcons ==
    /\ ConfigIdle
    /\ tty \in BOOLEAN
    /\ when \in {"Never", "Auto", "Always"}
    /\ theme \in {"Fancy", "Unicode"}
    /\ separator \in Separators
    /\ themeFile \in ThemeFiles
    /\ windows \in BOOLEAN
    /\ icons = NoIcons
    /\ entry = NoName
    /\ icon = <<>>
    /\ listed = 0
    /\ stderr = <<>>
    /\ pc = "new"

(* Icons::new(tty, when, theme, icon_separator) *)
CallIconsNew ==
    /\ pc = "new"
    /\ icons' = Icons_new(tty, when, theme, separator, themeFile).val
    /\ stderr' = stderr \o Icons_new(tty, when, theme, separator, themeFile).errs
    /\ pc' = "listing"
    /\ UNCHANGED <<configVars, iconInputs, entry, icon, listed>>

(* icons.get(&name) for the next entry *)
CallIconsGet ==
    /\ pc = "listing"
    /\ listed < MaxEntries
    /\ \E n \in Names :
        /\ entry' = n
        /\ icon' = Icons_get(icons, n, windows)
    /\ listed' = listed + 1
    /\ UNCHANGED <<configVars, iconInputs, icons, stderr, pc>>

NextIcons == CallIconsNew \/ CallIconsGet

SpecIcons == InitIcons /\ [][NextIcons]_vars

----------------------------------------------------------------------------
(* Properties of configuration resolution *)

FormatError == <<"configuration file format error">>

(* the document in the file, when the file could be read and is a mapping *)
FileDoc == file.bytes.doc

HasDoc == file.kind = "Ok" /\ file.bytes.syntax

BadBool(n) == n \in {Plain("notbool"), Quoted("notabool")}

(* the document of the file parsed, and the options are resolved against it *)
UserDocLoaded ==
    /\ HasDoc
    /\ IsSome(config)
    /\ op = "default" => pathOutcome = "ok"
    /\ \A i \in 1..Len(stderr) : stderr[i] # FormatError[1]

NoDisplayArg == ~matches.all /\ ~matches.almost_all /\ ~matches.directory_only

(* C1: the resolved display is the first present value in the order        *)
(* argument, document, default: an argument wins over whatever the         *)
(* document sets; without an argument the document's value is taken; with  *)
(* neither the result is Display::DisplayOnlyVisible.                      *)
C1_LayerOrder ==
    pc = "done" =>
        LET c == EffectiveConfig(config) IN
        /\ matches.all => flags.display = "All"
        /\ ~matches.all /\ matches.almost_all => flags.display = "AlmostAll"
        /\ ~matches.all /\ ~matches.almost_all /\ matches.directory_only
              => flags.display = "DirectoryItself"
        /\ NoDisplayArg /\ c.display = Some("all") => flags.display = "All"
        /\ NoDisplayArg /\ c.display = Some("almost-all") => flags.display = "AlmostAll"
        /\ NoDisplayArg /\ c.display = Some("directory-only")
              => flags.display = "DirectoryItself"
        /\ NoDisplayArg /\ c.display = None => flags.display = "DisplayOnlyVisible"

C1_Witness ==
    /\ pc = "done"
    /\ matches.directory_only /\ ~matches.all /\ ~matches.almost_all
    /\ UserDocLoaded
    /\ FileDoc.display = Plain("all")
    /\ Unwrap(config).display = Some("all")
    /\ flags.display = "DirectoryItself"

(* C2: with classic: true in the document and no color argument,           *)
(* color.when resolves to never; sorting.dir-grouping resolves to none,    *)
(* icons.when to never and date to date whatever the document sets for     *)
(* them; an explicit --color always still resolves color.when to always.   *)
C2_ClassicPrecedence ==
    pc = "done" /\ UserDocLoaded /\ FileDoc.classic = Plain("true") =>
        /\ matches.color = None => flags.color_when = "never"
        /\ matches.color = Some("always") => flags.color_when = "always"
        /\ flags.dir_grouping = "none"
        /\ flags.icon_when = "never"
        /\ flags.date = "date"

C2_Witness ==
    /\ pc = "done" /\ UserDocLoaded
    /\ FileDoc.classic = Plain("true")
    /\ FileDoc.color = ColorMap(Plain("always"))
    /\ matches.color = None
    /\ flags.color_when = "never"

(* what the built-in template holds for the fields of Config *)
TemplateConfig ==
    [classic |-> <<FALSE>>, color |-> <<[when |-> "auto"]>>, date |-> <<"date">>,
     display |-> <<>>, icons |-> <<[when |-> <<"auto">>, theme |-> <<"fancy">>]>>,
     sorting |-> <<[dir_grouping |-> <<>>]>>]

(* C3 as stated: a document with classic: "notabool" and a valid           *)
(* icons.theme resolves classic to its default and icons.theme to the      *)
(* document's value.                                                       *)
C3_FieldIsolation ==
    /\ pc = "done" /\ op \in {"with_file", "default"} /\ HasDoc
    /\ op = "default" => pathOutcome = "ok"
    /\ FileDoc.classic = Quoted("notabool")
    /\ FileDoc.icons.style = "map" /\ FileDoc.icons.theme.text \in {"fancy", "unicode"}
    => flags.classic = FALSE /\ flags.icon_theme = FileDoc.icons.theme.text

(* C3, amended: a document in which classic is not a boolean is dropped as *)
(* a whole: classic resolves to its default and no other field of that     *)
(* document is used, every option falls through to the next layer (an      *)
(* argument if given, else the value of the built-in template or the       *)
(* hard-coded default).                                                    *)
C3_WholeDocumentFallsThrough ==
    /\ pc = "done" /\ HasDoc
    /\ op = "default" => pathOutcome = "ok"
    /\ BadBool(FileDoc.classic)
    => /\ op \in {"with_yaml", "with_file"} => config = None
       /\ op = "default" => config = Some(TemplateConfig)
       /\ FormatError[1] \in {stderr[i] : i \in 1..Len(stderr)}
       /\ flags.classic = FALSE
       /\ flags.icon_theme = "fancy"
       /\ flags.icon_when = "auto"
       /\ flags.date = "date"
       /\ flags.dir_grouping = "none"
       /\ matches.color = None => flags.color_when = "auto"
       /\ NoDisplayArg => flags.display = "DisplayOnlyVisible"

C3_Witness ==
    /\ pc = "done" /\ op = "default" /\ pathOutcome = "ok" /\ HasDoc
    /\ FileDoc.classic = Quoted("notabool")
    /\ FileDoc.icons = IconsMap(Absent, Plain("unicode"))
    /\ flags.icon_theme = "fancy"
    /\ flags.classic = FALSE

(* the nodes of a document whose fields all have the declared types *)
WellTyped(d) ==
    /\ d.classic \in {Absent, Plain("true"), Plain("false")}
    /\ d.color.style = "absent" \/ (d.color.style = "map" /\ d.color.when.style = "plain")
    /\ d.icons.style \in {"absent", "map"}
    /\ d.sorting.style \in {"absent", "map"}

TextOf(n) == IF n.style = "absent" THEN None ELSE Some(n.text)

(* C4: Config::with_yaml on a document whose classic is not a boolean      *)
(* returns None and reports one format error, whatever the other fields    *)
(* hold; a document whose fields are all well typed parses to Some with    *)
(* the document's values.                                                  *)
C4_TypeMismatchFailsDocument ==
    pc = "loaded" /\ op = "with_yaml" /\ file.bytes.syntax =>
        /\ BadBool(FileDoc.classic) => config = None /\ stderr = FormatError
        /\ WellTyped(FileDoc) =>
              /\ IsSome(config) /\ stderr = <<>>
              /\ Unwrap(config).classic =
                    (IF FileDoc.classic = Absent THEN None
                     ELSE Some(FileDoc.classic = Plain("true")))
              /\ Unwrap(config).display = TextOf(FileDoc.display)
              /\ Unwrap(config).date = TextOf(FileDoc.date)
              /\ Unwrap(config).color =
                    (IF FileDoc.color.style = "absent" THEN None
                     ELSE Some([when |-> FileDoc.color.when.text]))
              /\ Unwrap(config).icons =
                    (IF FileDoc.icons.style = "absent" THEN None
                     ELSE Some([when |-> TextOf(FileDoc.icons.when),
                                theme |-> TextOf(FileDoc.icons.theme)]))

C4_Witness ==
    /\ pc = "loaded" /\ op = "with_yaml" /\ file.bytes.syntax
    /\ FileDoc.classic = Plain("notbool")
    /\ FileDoc.display = Plain("all")
    /\ FileDoc.color = ColorMap(Plain("always"))
    /\ config = None
    /\ stderr = FormatError

(* C5: Config::with_file returns None and reports nothing when the file    *)
(* does not exist; returns None and reports exactly one error on any other *)
(* read failure and on a readable file that does not parse; it returns a   *)
(* document only for a readable file that parses.                          *)
C5_WithFile ==
    pc = "loaded" /\ op = "with_file" =>
        /\ file.kind = "NotFound" => config = None /\ stderr = <<>>
        /\ file.kind = "PermissionDenied" => config = None /\ stderr = <<"bad config file">>
        /\ file.kind = "Ok" /\ (~file.bytes.syntax \/ BadBool(FileDoc.classic))
              => config = None /\ stderr = FormatError
        /\ IsSome(config) => HasDoc /\ stderr = <<>>
        /\ HasDoc /\ WellTyped(FileDoc) => IsSome(config)

C5_Witness ==
    /\ pc = "loaded" /\ op = "with_file"
    /\ file.kind = "NotFound"
    /\ config = None
    /\ stderr = <<>>

----------------------------------------------------------------------------
(* Properties of icon resolution *)

Got == pc = "listing" /\ listed > 0

Enabled == IsSome(icons.theme)

IsType(tag, flag) == entry.file_type = FileType(tag, flag)

RegularOrDirectory == entry.file_type.tag \in {"File", "Directory"}

CompiledFancy == theme = "Fancy" /\ themeFile.kind # "valid"

(* C6: icons are disabled exactly when the policy is Never, or Auto with   *)
(* an output that is not a tty; disabled, Icons::get returns the empty     *)
(* string for every entry; with Always they are enabled without a tty too. *)
C6_DisabledIcons ==
    pc = "listing" =>
        /\ icons.theme = None <=> (when = "Never" \/ (when = "Auto" /\ ~tty))
        /\ when = "Always" => IsSome(icons.theme)
        /\ listed > 0 /\ (when = "Never" \/ (when = "Auto" /\ ~tty)) => icon = <<>>

C6_Witness ==
    /\ Got
    /\ when = "Auto" /\ ~tty /\ theme = "Fancy" /\ separator = <<" ">>
    /\ entry = MkName(S_makefile, FileType("SymLink", TRUE))
    /\ icon = <<>>

(* C7: with icons enabled, an entry that is a symlink (to a directory or   *)
(* not), socket, pipe, char device, block device or special file gets the  *)
(* theme's glyph of exactly that category, whatever its name and           *)
(* extension.                                                              *)
C7_CategoryPrecedence ==
    Got /\ Enabled =>
        LET t == Unwrap(icons.theme).icons_by_filetype IN
        /\ IsType("SymLink", TRUE) => icon = t.symlink_dir \o separator
        /\ IsType("SymLink", FALSE) => icon = t.symlink_file \o separator
        /\ IsType("Socket", FALSE) => icon = t.socket \o separator
        /\ IsType("Pipe", FALSE) => icon = t.pipe \o separator
        /\ IsType("CharDevice", FALSE) => icon = t.device_char \o separator
        /\ IsType("BlockDevice", FALSE) => icon = t.device_block \o separator
        /\ IsType("Special", FALSE) => icon = t.special \o separator

C7_Witness ==
    /\ Got /\ CompiledFancy /\ when = "Always" /\ separator = <<" ">>
    /\ entry = MkName(S_todo_md, FileType("SymLink", TRUE))
    /\ icon = <<"U+F482", " ">>

(* C8: with icons enabled, for a regular file or a directory the           *)
(* lowercased full name is looked up in icons-by-name first and its glyph  *)
(* returned, also when the extension is a key of icons-by-extension; only  *)
(* when the full name is no key and there is an extension is the glyph of  *)
(* the lowercased extension returned; a name that only starts with a       *)
(* by-name key does not match by name.                                     *)
C8_NameOverExtension ==
    Got /\ Enabled /\ RegularOrDirectory =>
        LET t == Unwrap(icons.theme)
            lname == to_lowercase(entry.name)
        IN
        /\ lname \in Keys(t.icons_by_name)
              => icon = Unwrap(MapGet(t.icons_by_name, lname)) \o separator
        /\ (/\ lname \notin Keys(t.icons_by_name)
            /\ IsSome(entry.extension)
            /\ to_lowercase(Unwrap(entry.extension)) \in Keys(t.icons_by_extension))
              => icon = Unwrap(MapGet(t.icons_by_extension,
                                      to_lowercase(Unwrap(entry.extension)))) \o separator
        /\ CompiledFancy =>
              /\ entry.name = S_Makefile => icon = <<"U+E615">> \o separator
              /\ entry.name = S_todo_md => icon = <<"U+F4A0">> \o separator
              /\ entry.name = S_makefile_md => icon = <<"U+F48A">> \o separator
              /\ entry.name = S_README_MD => icon = <<"U+F48A">> \o separator

C8_Witness ==
    /\ Got /\ CompiledFancy /\ when = "Always" /\ separator = <<" ">>
    /\ entry = MkName(S_todo_md, FileType("File", FALSE))
    /\ entry.extension = Some(S_md)
    /\ icon = <<"U+F4A0", " ">>

(* every glyph of a theme *)
GlyphsOf(t) ==
    {t.icons_by_filetype[k] : k \in DOMAIN t.icons_by_filetype}
        \cup {e[2] : e \in t.icons_by_name} \cup {e[2] : e \in t.icons_by_extension}

NoNameOrExtensionMatch ==
    LET t == Unwrap(icons.theme) IN
    /\ to_lowercase(entry.name) \notin Keys(t.icons_by_name)
    /\ \/ entry.extension = None
       \/ to_lowercase(Unwrap(entry.extension)) \notin Keys(t.icons_by_extension)

(* C9: with icons enabled, a regular file or directory whose name and      *)
(* extension match nothing gets the category default: the directory glyph  *)
(* for a directory, the executable glyph for an executable regular file    *)
(* (not on Windows), the file glyph for a non-executable regular file; and *)
(* for every entry the result is one glyph of the theme followed by the    *)
(* separator.                                                              *)
C9_ExhaustiveFallback ==
    Got /\ Enabled =>
        LET t == Unwrap(icons.theme) IN
        /\ NoNameOrExtensionMatch /\ IsType("Directory", FALSE)
              => icon = t.icons_by_filetype.dir \o separator
        /\ NoNameOrExtensionMatch /\ IsType("File", TRUE) /\ ~windows
              => icon = t.icons_by_filetype.executable \o separator
        /\ NoNameOrExtensionMatch /\ IsType("File", FALSE)
              => icon = t.icons_by_filetype.file \o separator
        /\ \E g \in GlyphsOf(t) : icon = g \o separator

C9_Witness ==
    /\ Got /\ CompiledFancy /\ when = "Always" /\ separator = <<" ">> /\ ~windows
    /\ entry = MkName(S_dot_md, FileType("File", TRUE))
    /\ entry.extension = None
    /\ icon = <<"U+F489", " ">>

(* C10: with the fancy theme and a valid override document the theme is    *)
(* the compiled-in fancy table with exactly the keys the document names    *)
(* replaced (or added): no key of the compiled-in table is removed and     *)
(* every entry the document does not name keeps its compiled-in value; a   *)
(* document naming one extension changes nothing else.                     *)
C10_ThemeOverlay ==
    pc = "listing" /\ Enabled /\ theme = "Fancy" /\ themeFile.kind = "valid" =>
        LET t == Unwrap(icons.theme)
            d == themeFile.doc
            b == IconTheme_default
        IN
        /\ DOMAIN t.icons_by_filetype = DOMAIN b.icons_by_filetype
        /\ \A k \in DOMAIN b.icons_by_filetype :
              IF k \in Keys(d.icons_by_filetype)
              THEN <<k, t.icons_by_filetype[k]>> \in d.icons_by_filetype
              ELSE t.icons_by_filetype[k] = b.icons_by_filetype[k]
        /\ d.icons_by_name \subseteq t.icons_by_name
        /\ d.icons_by_extension \subseteq t.icons_by_extension
        /\ \A e \in b.icons_by_name : e[1] \notin Keys(d.icons_by_name) => e \in t.icons_by_name
        /\ \A e \in b.icons_by_extension :
              e[1] \notin Keys(d.icons_by_extension) => e \in t.icons_by_extension
        /\ Keys(t.icons_by_name) = Keys(b.icons_by_name) \cup Keys(d.icons_by_name)
        /\ Keys(t.icons_by_extension)
              = Keys(b.icons_by_extension) \cup Keys(d.icons_by_extension)
        /\ Cardinality(t.icons_by_name) = Cardinality(Keys(t.icons_by_name))
        /\ Cardinality(t.icons_by_extension) = Cardinality(Keys(t.icons_by_extension))
        /\ d = OneExtensionDoc =>
              /\ t.icons_by_filetype = b.icons_by_filetype
              /\ t.icons_by_name = b.icons_by_name
              /\ t.icons_by_extension
                    = {<<S_md, <<"user-md">>>>, <<S_txt, <<"U+F15C">>>>}

C10_Witness ==
    /\ Got /\ theme = "Fancy" /\ when = "Always" /\ separator = <<" ">>
    /\ themeFile = ThemeValid(OneExtensionDoc)
    /\ entry = MkName(S_README_MD, FileType("File", FALSE))
    /\ icon = <<"user-md", " ">>

----------------------------------------------------------------------------
(* Properties of Config::default *)

(* the Config c holds exactly the values of the well-typed document d *)
HoldsDocument(c, d) ==
    /\ c.classic = (IF d.classic = Absent THEN <<>> ELSE <<d.classic = Plain("true")>>)
    /\ c.display = TextOf(d.display)
    /\ c.date = TextOf(d.date)
    /\ c.color = (IF d.color.style = "absent" THEN <<>> ELSE <<[when |-> d.color.when.text]>>)
    /\ c.icons = (IF d.icons.style = "absent" THEN <<>>
                  ELSE <<[when |-> TextOf(d.icons.when), theme |-> TextOf(d.icons.theme)]>>)
    /\ c.sorting = (IF d.sorting.style = "absent" THEN <<>>
                    ELSE <<[dir_grouping |-> TextOf(d.sorting.dir_grouping)]>>)

(* the path was computed, the file read and its document parsed *)
UserFileUsable == pathOutcome = "ok" /\ HasDoc /\ WellTyped(FileDoc)

(* C11: Config::default never aborts and always returns a document: the    *)
(* user's parsed document when computing the path, reading the file and    *)
(* parsing it all succeed, and otherwise the document of the built-in      *)
(* template (classic false, color.when auto, icons.when auto, icons.theme  *)
(* fancy, display unset).                                                  *)
C11_DefaultNeverFails ==
    /\ pc # "panicked"
    /\ op = "default" =>
          /\ IsSome(config)
          /\ UserFileUsable => HoldsDocument(Unwrap(config), FileDoc)
          /\ ~UserFileUsable => config = Some(TemplateConfig)

C11_Witness ==
    /\ pc = "loaded" /\ op = "default"
    /\ pathOutcome = "ok"
    /\ file = ReadOtherError
    /\ stderr = <<"bad config file">>
    /\ config = Some(TemplateConfig)

----------------------------------------------------------------------------
(* Properties of Display::from_config *)

DisplayError == "display can only be one of all, almost-all or directory-only"

DisplayErrors == Cardinality({i \in 1..Len(stderr) : stderr[i] = DisplayError})

(* C12: Display::from_config returns All, AlmostAll and DirectoryItself    *)
(* exactly for the strings all, almost-all and directory-only; returns     *)
(* None and reports nothing when display is unset; for any other string it *)
(* reports one error and returns None, and the resolved display is then    *)
(* the default.                                                            *)
C12_DisplayFromConfig ==
    LET c == EffectiveConfig(config) IN
    /\ pc = "queried" =>
          /\ returned = <<"All">> <=> c.display = <<"all">>
          /\ returned = <<"AlmostAll">> <=> c.display = <<"almost-all">>
          /\ returned = <<"DirectoryItself">> <=> c.display = <<"directory-only">>
          /\ returned \in {<<>>, <<"All">>, <<"AlmostAll">>, <<"DirectoryItself">>}
          /\ c.display = <<>> => returned = <<>> /\ DisplayErrors = 0
          /\ returned # <<>> => DisplayErrors = 0
          /\ c.display # <<>> /\ returned = <<>> => DisplayErrors = 1
    /\ pc = "done" /\ NoDisplayArg
          /\ c.display \notin {<<>>, <<"all">>, <<"almost-all">>, <<"directory-only">>}
          => flags.display = "DisplayOnlyVisible" /\ DisplayErrors = 1

C12_Witness ==
    /\ pc = "queried"
    /\ UserDocLoaded
    /\ FileDoc.display = Plain("everything")
    /\ Unwrap(config).display = <<"everything">>
    /\ returned = <<>>
    /\ stderr = <<DisplayError>>

----------------------------------------------------------------------------
(* Properties of the theme Icons::new loads *)

IconsOn == when = "Always" \/ (when = "Auto" /\ tty)

Categories ==
    {"dir", "file", "executable", "symlink_dir", "symlink_file", "socket", "pipe",
     "device_char", "device_block", "special"}

(* C13: when icons are enabled Icons::new always sets a theme with a glyph *)
(* for every category; with the unicode choice it is the compiled-in       *)
(* unicode table whatever override document exists; with the fancy choice  *)
(* and an absent or malformed override document it is the compiled-in      *)
(* fancy table unmodified.                                                 *)
C13_ThemeAlwaysComplete ==
    pc = "listing" /\ IconsOn =>
        /\ IsSome(icons.theme)
        /\ DOMAIN Unwrap(icons.theme).icons_by_filetype = Categories
        /\ theme = "Unicode" =>
              /\ icons.theme = <<IconTheme_unicode>>
              /\ listed > 0 /\ IsType("File", FALSE) => icon = <<"U+1F4C4">> \o separator
              /\ listed > 0 /\ IsType("Directory", FALSE) => icon = <<"U+1F4C2">> \o separator
        /\ theme = "Fancy" /\ themeFile.kind \in {"absent", "malformed"} =>
              /\ icons.theme = <<IconTheme_default>>
              /\ listed > 0 /\ IsType("File", FALSE) /\ entry.name = S_file
                    => icon = <<"U+F016">> \o separator
              /\ listed > 0 /\ IsType("Directory", FALSE) /\ entry.name = S_file
                    => icon = <<"U+F115">> \o separator

C13_Witness ==
    /\ Got /\ theme = "Unicode" /\ when = "Always" /\ ~tty /\ separator = <<" ">>
    /\ themeFile = ThemeValid(OneExtensionDoc)
    /\ entry = MkName(S_README_MD, FileType("File", FALSE))
    /\ icon = <<"U+1F4C4", " ">>

====
